---- MODULE Spec2Model ----
(***************************************************************************)
(* uds-proxy: a forward proxy listening on a UNIX domain socket.  The      *)
(* model follows proxy/conn.go (Instance, handleProxyRequest,              *)
(* newHTTPClient), proxy/utility.go (sigHandler) and cmd/uds-proxy/main.go *)
(* (flag defaults).  One handler runs per client connection; all handlers  *)
(* share the single http.Client and its transport's connection pool.       *)
(***************************************************************************)
EXTENDS Integers, Sequences, FiniteSets, TLC

\* ------------------------------------------------------------------ bounds
\* client connections on the socket, each served by one handler at a time
NumClients == 2
\* outbound requests one call of Do may issue before the model stops following
MaxFollow == 2
\* calls of Instance.Shutdown by the embedding program
MaxShutdownCalls == 2
\* processes started with the same socket path
NumInstances == 2

Clients == 1..NumClients
Instances == 1..NumInstances
RelayClient == CHOOSE c \in Clients : \A d \in Clients : c <= d

\* ------------------------------------------------------- values in the model
\* Strings the code concatenates and parses are sequences of tokens here: the
\* string is the tokens written one after the other.
InboundHosts == {"svc.local", "%zz"}
InboundPaths == {"/status", "/q?x=1"}
ForcedHosts == {"", "forced.local"}

\* Request.URL of a request in origin form (GET /status) and in absolute form
\* (GET http://svc.local/status), and the Request.Host the server derives: the
\* Host header, or the host of an absolute request target
OriginForm(path) == [scheme |-> "", host |-> "", pathq |-> path]
AbsoluteForm(host, path) == [scheme |-> "http", host |-> host, pathq |-> path]
InboundRequests ==
    {[Host |-> h, URL |-> OriginForm(p)] :
        h \in InboundHosts, p \in InboundPaths} \cup
    {[Host |-> "svc.local", URL |-> AbsoluteForm("svc.local", "/status")]}

IdentityHeaders ==
    {"X-Auth-UID", "X-Auth-GID", "X-Auth-User", "X-Auth-Group", "X-Auth-Roles"}
RequestHeaderNames == IdentityHeaders \cup {"X-Forwarded-For"}
ResponseHeaderNames ==
    {"Location", "Set-Cookie", "Content-Type", "X-Content-Type-Options"}

\* a value a client may put into any request header
Forged == "forged"

\* outcomes of peercred.Read, user.LookupId and user.LookupGroupId
PeerUID == "1000"
PeerGID == "100"
PeerUser == "alice"
PeerGroup == "staff"
CredFailed == [ok |-> FALSE, user |-> FALSE, group |-> FALSE]
CredFound == [ok |-> TRUE, user |-> TRUE, group |-> TRUE]
CredOutcomes ==
    {CredFailed} \cup
    {[ok |-> TRUE, user |-> u, group |-> g] : u \in BOOLEAN, g \in BOOLEAN}

\* errors: of http.NewRequest, of peercred.Read, of HTTPClient.Do (a timeout
\* of the client, a timeout of the transport, any other transport error) and
\* of io.Copy (a read cut by the client timeout, a failed write)
ErrNewRequest == "invalid URL escape"
ErrPeerCred == "peercred: not supported"
ErrClientTimeout == "Client.Timeout exceeded"
ErrTransportTimeout == "timeout awaiting response headers"
ErrTransport == "connection refused"
ErrCopyTimeout == "Client.Timeout exceeded while reading body"
ErrCopyWrite == "write: broken pipe"
\* the panic of ResponseWriter.WriteHeader for a code it refuses
ErrWriteHeader == "invalid WriteHeader code"

\* url.Error.Timeout()
Timeout(e) == e \in {ErrClientTimeout, ErrTransportTimeout}

StatusInternalServerError == 500
StatusBadGateway == 502
StatusGatewayTimeout == 504

\* ------------------------------------------------------------ http.Header
EmptyHeader(names) == [k \in names |-> <<>>]
HeaderSet(h, k, v) == [h EXCEPT ![k] = <<v>>]
HeaderAdd(h, k, v) == [h EXCEPT ![k] = Append(@, v)]
HeaderDel(h, k) == [h EXCEPT ![k] = <<>>]

\* -------------------------------------------------------------- Settings
\* Flag defaults of cmd/uds-proxy/main.go.  A timeout of 0 disables it, as in
\* net/http; a MaxConnsPerHost of 0 means no limit.
DefaultMaxConnsPerHost == 20
DefaultClientTimeout == 5000
DefaultSocketWriteTimeout == 5500
\* -socket-mode 0755
DefaultSocketMode == 493
DefaultSocketPath == "/tmp/t.sock"
\* a write timeout that is not longer than the client timeout
ShortSocketWriteTimeout == DefaultClientTimeout

Timeouts ==
    [ClientTimeout : {0, DefaultClientTimeout},
     SocketWriteTimeout :
        {0, ShortSocketWriteTimeout, DefaultSocketWriteTimeout}]

Settings(remoteHTTPS, forceRemoteHost, timeouts, maxConnsPerHost) ==
    [RemoteHTTPS |-> remoteHTTPS,
     ForceRemoteHost |-> forceRemoteHost,
     ClientTimeout |-> timeouts.ClientTimeout,
     SocketWriteTimeout |-> timeouts.SocketWriteTimeout,
     MaxConnsPerHost |-> maxConnsPerHost,
     SocketPath |-> DefaultSocketPath,
     SocketMode |-> DefaultSocketMode,
     PrintVersion |-> FALSE]

\* every scheme, host override and timeout, with the default pool limit
RelaySettings ==
    {Settings(s, f, t, DefaultMaxConnsPerHost) :
        s \in BOOLEAN, f \in ForcedHosts, t \in Timeouts}

\* -socket unset, a usable path, and a path in a directory that is missing
SocketPaths == {"", DefaultSocketPath, "/nodir/t.sock"}
\* -socket-mode 0755, 0600 and 01755
PrivateSocketMode == 384
StickySocketMode == 1005
SocketModes == {DefaultSocketMode, PrivateSocketMode, StickySocketMode}

\* the default relay, with every -version, -socket and -socket-mode
LifeSettings ==
    {[Settings(FALSE, "",
               [ClientTimeout |-> DefaultClientTimeout,
                SocketWriteTimeout |-> DefaultSocketWriteTimeout],
               DefaultMaxConnsPerHost)
        EXCEPT !.SocketPath = p, !.SocketMode = m, !.PrintVersion = v] :
        p \in SocketPaths, m \in SocketModes, v \in BOOLEAN}

\* every timeout and pool limit, for requests to one origin
PoolSettings ==
    {Settings(FALSE, "", t, m) : t \in Timeouts, m \in {0, 1}}

VARIABLES
    Options,               \* Instance.Options
    pc,                    \* where each client's handler is
    clientRequest,         \* the inbound request as received, and what the
                           \* lookups on its connection's peer give
    backendRequest,        \* the outbound request while HTTPClient.Do runs
    outbound,              \* requests submitted to HTTPClient for this inbound one
    backendResponse,       \* the response HTTPClient.Do returned
    clientResponseWriter,  \* what the handler wrote and what reached the client
    writeDeadlinePassed,   \* the connection's write deadline has expired
    err,                   \* the error the handler met, "" for none
    holdsConn,             \* the origin whose connection the request occupies
    openConns,             \* per origin: connections dialing, active or idle
    idleConns,             \* per origin: idle pooled connections
    sigChan,               \* signals buffered in the channel of NewProxyInstance
    proc,                  \* sigHandler's goroutine: "starting" (not started),
                           \* "running", "shutdown" (Shutdown returned); the
                           \* process: "exited"
    phase,                 \* where the main goroutine is
    uid,                   \* os.Getuid()
    conn,                  \* each client's connection to the socket
    socketFile,            \* what is at Options.SocketPath
    exitCode,              \* the exit status of the process
    shutdowns,             \* calls of Instance.Shutdown so far
    instances,             \* the processes sharing one socket path: each one's
                           \* main goroutine, sigHandler, signal channel and
                           \* exit status
    socketOwner            \* the instance whose listener the file at the
                           \* shared path leads to, 0 for none

vars ==
    <<Options, pc, clientRequest, backendRequest, outbound,
      backendResponse, clientResponseWriter, writeDeadlinePassed, err,
      holdsConn, openConns, idleConns, sigChan, proc,
      phase, uid, conn, socketFile, exitCode, shutdowns,
      instances, socketOwner>>

\* what only the startup writes, and what the shutdown and the exits write
startVars == <<phase, uid, conn>>
exitVars == <<socketFile, exitCode, shutdowns>>
\* what only processes sharing one socket path write
restartVars == <<instances, socketOwner>>

\* ------------------------------------------------- the socket path
\* What is at the path: nothing, a removable file (a stale socket), a
\* directory that os.Remove cannot remove, or this process's socket.
Absent == [kind |-> "absent", mode |-> 0]

\* FileMode.Perm(): the nine permission bits
Perm(mode) == mode % 512

\* the mode of a socket that net.Listen creates under umask 022
ListenMode == 493

\* an os.Chmod that changes nothing
ChmodSkipped(file, mode) == file

\* os.Chmod(path, os.FileMode(mode)): of an int, only the permission bits
\* are bits of a FileMode that Chmod applies
Chmod(file, mode) == [file EXCEPT !.mode = Perm(mode)]

\* an os.Remove that removes nothing
RemoveKeeps(file) == file

\* os.Remove(path): a missing path and a directory in use are errors
Remove(file) == IF file.kind \in {"file", "socket"} THEN Absent ELSE file

\* the process has not exited
NoExit == -1
RootUID == 0
NonRootUID == 1000

\* the hosts an outbound URL can name
Origins ==
    {<<"svc.local">>, <<"forced.local">>,
     <<"svc.local", "http", ":">>, <<"forced.local", "http", ":">>}

NoURL == [scheme |-> "", host |-> <<>>, pathq |-> <<>>]
NoClientRequest ==
    [Host |-> "", URL |-> OriginForm(""),
     Header |-> EmptyHeader(RequestHeaderNames), Cred |-> CredFailed]
NoBackendRequest ==
    [URL |-> NoURL, Host |-> "", Header |-> EmptyHeader(RequestHeaderNames)]
NoResponse ==
    [StatusCode |-> 0, Header |-> EmptyHeader(ResponseHeaderNames),
     Body |-> <<>>, read |-> 0, closed |-> 0]
NewResponseWriter ==
    [status |-> 0, header |-> EmptyHeader(ResponseHeaderNames), body |-> <<>>,
     wireStatus |-> 0, wireBody |-> <<>>, writes |-> 0]

\* a three-digit status code below 100, which http.ReadResponse accepts
LowStatusCode == 99

\* what a backend may answer
BackendResponses ==
    {[StatusCode |-> 200,
      Header |-> [EmptyHeader(ResponseHeaderNames) EXCEPT
                    !["Set-Cookie"] = <<"a=1", "b=2">>,
                    !["Content-Type"] = <<"text/plain">>],
      Body |-> <<"o", "k">>, read |-> 0, closed |-> 0],
     [StatusCode |-> 302,
      Header |-> [EmptyHeader(ResponseHeaderNames) EXCEPT
                    !["Location"] = <<"/next">>],
      Body |-> <<>>, read |-> 0, closed |-> 0],
     [StatusCode |-> 404,
      Header |-> EmptyHeader(ResponseHeaderNames),
      Body |-> <<"k">>, read |-> 0, closed |-> 0],
     [StatusCode |-> LowStatusCode,
      Header |-> EmptyHeader(ResponseHeaderNames),
      Body |-> <<"k">>, read |-> 0, closed |-> 0]}

\* no request is being handled
InitHandlers ==
    /\ pc = [c \in Clients |-> "idle"]
    /\ clientRequest = [c \in Clients |-> NoClientRequest]
    /\ backendRequest = [c \in Clients |-> NoBackendRequest]
    /\ outbound = [c \in Clients |-> 0]
    /\ backendResponse = [c \in Clients |-> NoResponse]
    /\ clientResponseWriter = [c \in Clients |-> NewResponseWriter]
    /\ writeDeadlinePassed = [c \in Clients |-> FALSE]
    /\ err = [c \in Clients |-> ""]
    /\ holdsConn = [c \in Clients |-> <<>>]
    /\ openConns = [h \in Origins |-> 0]
    /\ idleConns = [h \in Origins |-> 0]
    /\ sigChan = 0
    /\ exitCode = NoExit
    /\ shutdowns = 0

\* a process of NewProxyInstance's caller, before NewProxyInstance runs
NotStarted ==
    [phase |-> "new", proc |-> "starting", sigChan |-> 0, exitCode |-> NoExit]

\* one process has the socket path to itself
InitAlone ==
    /\ instances = [i \in Instances |-> NotStarted]
    /\ socketOwner = 0

\* the proxy is serving and every client is connected
InitWith(settings) ==
    /\ Options \in settings
    /\ InitHandlers
    /\ InitAlone
    /\ proc = "running"
    /\ phase = "serve"
    /\ uid = NonRootUID
    /\ conn = [c \in Clients |-> "accepted"]
    /\ socketFile = [kind |-> "socket", mode |-> Perm(Options.SocketMode)]

Init == InitWith(RelaySettings)

InitPool == InitWith(PoolSettings)

\* the process starts: any user, any of the flags -version, -socket and
\* -socket-mode, and anything at the socket path
InitLife ==
    /\ Options \in LifeSettings
    /\ InitHandlers
    /\ InitAlone
    /\ proc = "starting"
    /\ phase = "start"
    /\ uid \in {RootUID, NonRootUID}
    /\ conn = [c \in Clients |-> "none"]
    /\ socketFile \in
          IF Options.SocketPath = DefaultSocketPath
          THEN {Absent, [kind |-> "file", mode |-> ListenMode],
                [kind |-> "dir", mode |-> ListenMode]}
          ELSE {Absent}

\* ------------------------------------------------- http.ResponseWriter
\* The server sets the connection's write deadline when it has read the
\* request header; once it has passed, nothing written reaches the client.
WriteHeader(w, code, delivered) ==
    [w EXCEPT !.status = IF @ = 0 THEN code ELSE @,
              !.wireStatus = IF w.status = 0 /\ delivered THEN code ELSE @,
              !.writes = @ + 1]

\* a writer that writes every chunk twice
WriteTwice(w, chunk, delivered) ==
    [w EXCEPT !.body = Append(Append(@, chunk), chunk),
              !.wireBody = IF delivered THEN Append(Append(@, chunk), chunk)
                           ELSE @]

Write(w, chunk, delivered) ==
    [w EXCEPT !.body = Append(@, chunk),
              !.wireBody = IF delivered THEN Append(@, chunk) ELSE @]

\* an Error that writes nothing to the client
ErrorSilent(w, text, code, delivered) == w

\* ResponseWriter.WriteHeader panics for a code that is not 100..999
InvalidWriteHeaderCode(code) == code < 100 \/ code > 999

\* http.Error(w, text, code)
Error(w, text, code, delivered) ==
    LET h1 == HeaderSet(w.header, "Content-Type", "text/plain; charset=utf-8")
        h2 == HeaderSet(h1, "X-Content-Type-Options", "nosniff")
    IN  Write(WriteHeader([w EXCEPT !.header = h2], code, delivered),
              text, delivered)

\* ------------------------------------------------- handleProxyRequest
Scheme == IF Options.RemoteHTTPS THEN "https" ELSE "http"

TargetHost(host) ==
    IF Options.ForceRemoteHost # "" THEN Options.ForceRemoteHost ELSE host

\* URL.String(): an absolute URL is written with its scheme and host
URLString(url) ==
    IF url.scheme = "" THEN <<url.pathq>>
    ELSE <<url.scheme, "://", url.host, url.pathq>>

\* line 154: fmt.Sprintf("%s://%s%s", scheme, targetHost, clientRequest.URL)
TargetURL(host, url) == <<Scheme, "://", TargetHost(host)>> \o URLString(url)

\* url.Parse, called by http.NewRequest (line 156): the host is what stands
\* between "://" and the next "/", the path is the rest.  When the text after
\* the host is itself "http://h/p", the next "/" is the one of its "://".
ParseURL(text) ==
    IF text[4] \in InboundPaths
    THEN [scheme |-> text[1], host |-> <<text[3]>>, pathq |-> <<text[4]>>]
    ELSE [scheme |-> text[1], host |-> <<text[3], text[4], ":">>,
          pathq |-> <<"//", text[6], text[7]>>]

\* url.Parse rejects a host with an invalid percent-escape
NewRequestFails(targetURL) ==
    \E i \in 1..Len(ParseURL(targetURL).host) :
        ParseURL(targetURL).host[i] = "%zz"

\* a handler that names the override in the outbound Host as well
BackendHostForced(host) == TargetHost(host)

\* line 161: backendRequest.Host = clientRequest.Host
BackendHost(host) == host

\* a handler that leaves the header alone when the lookup fails
UserHeaderKept(header, cred) ==
    IF cred.user THEN HeaderSet(header, "X-Auth-User", PeerUser) ELSE header

\* lines 171-190: the identity and forwarding headers
UserHeader(header, cred) ==
    IF cred.user THEN HeaderSet(header, "X-Auth-User", PeerUser)
    ELSE HeaderDel(header, "X-Auth-User")

\* a handler that leaves the group header alone when the lookup fails
GroupHeaderKept(header, cred) ==
    IF cred.group THEN HeaderSet(header, "X-Auth-Group", PeerGroup) ELSE header

GroupHeader(header, cred) ==
    IF cred.group THEN HeaderSet(header, "X-Auth-Group", PeerGroup)
    ELSE HeaderDel(header, "X-Auth-Group")

\* a handler that adds its forwarded-for value to the client's
SetIdentityHeadersAdd(header, cred) ==
    LET h1 == HeaderSet(header, "X-Auth-UID", PeerUID)
        h2 == UserHeader(h1, cred)
        h3 == HeaderSet(h2, "X-Auth-GID", PeerGID)
        h4 == GroupHeader(h3, cred)
        h5 == HeaderDel(h4, "X-Auth-Roles")
    IN  HeaderAdd(h5, "X-Forwarded-For", "127.0.0.1")

SetIdentityHeaders(header, cred) ==
    LET h1 == HeaderSet(header, "X-Auth-UID", PeerUID)
        h2 == UserHeader(h1, cred)
        h3 == HeaderSet(h2, "X-Auth-GID", PeerGID)
        h4 == GroupHeader(h3, cred)
        h5 == HeaderDel(h4, "X-Auth-Roles")
    IN  HeaderSet(h5, "X-Forwarded-For", "127.0.0.1")

\* http.Error(clientResponseWriter, err.Error(), code); return
Fail(c, e, code) ==
    /\ err' = [err EXCEPT ![c] = e]
    /\ clientResponseWriter' = [clientResponseWriter EXCEPT
          ![c] = Error(@, e, code, ~writeDeadlinePassed[c])]
    /\ pc' = [pc EXCEPT ![c] = "done"]

\* what clients send: none of these headers, every one of them forged, or
\* several forwarded-for values
NoHeaders == [k \in RequestHeaderNames |-> <<>>]
ClientHeaders ==
    {NoHeaders,
     [k \in RequestHeaderNames |-> <<Forged>>],
     [NoHeaders EXCEPT !["X-Forwarded-For"] = <<Forged, "10.0.0.1">>]}

\* lines 143-192: from the handler's entry to the call of HTTPClient.Do, for
\* one inbound request and one outcome of the credential lookups
Handle(c, request, header, cred) ==
    LET targetURL == TargetURL(request.Host, request.URL)
    IN  /\ proc # "exited"
        /\ conn[c] = "accepted"
        /\ pc[c] = "idle"
        /\ clientRequest' = [clientRequest EXCEPT
              ![c] = [Host |-> request.Host, URL |-> request.URL,
                      Header |-> header, Cred |-> cred]]
        /\ IF NewRequestFails(targetURL)
           THEN /\ Fail(c, ErrNewRequest, StatusInternalServerError)
                /\ UNCHANGED <<backendRequest, outbound>>
           ELSE IF ~cred.ok
           THEN /\ Fail(c, ErrPeerCred, StatusInternalServerError)
                /\ UNCHANGED <<backendRequest, outbound>>
           ELSE /\ backendRequest' = [backendRequest EXCEPT
                      ![c] = [URL |-> ParseURL(targetURL),
                              Host |-> BackendHost(request.Host),
                              Header |-> SetIdentityHeaders(header, cred)]]
                /\ outbound' = [outbound EXCEPT ![c] = @ + 1]
                /\ pc' = [pc EXCEPT ![c] = "admit"]
                /\ UNCHANGED <<clientResponseWriter, err>>
        /\ UNCHANGED <<restartVars, startVars, exitVars>>
        /\ UNCHANGED <<Options, backendResponse, writeDeadlinePassed,
                       holdsConn, openConns, idleConns, sigChan, proc>>

\* a request of any client, with any headers
handleProxyRequest(c) ==
    \E request \in InboundRequests, header \in ClientHeaders,
       cred \in CredOutcomes :
        Handle(c, request, header, cred)

\* ------------------------------------------------- http.Transport
\* a transport that never refuses to dial
CanDialAlways(h) == TRUE

\* Transport.MaxConnsPerHost (line 215) counts dialing, active and idle
\* connections of one origin; zero or less means no limit.
CanDial(h) ==
    \/ Options.MaxConnsPerHost <= 0
    \/ openConns[h] < Options.MaxConnsPerHost

Origin(c) == backendRequest[c].URL.host

\* the handler's connection goes back to the idle pool or is closed
ReleaseConn(c, reuse) ==
    /\ holdsConn' = [holdsConn EXCEPT ![c] = <<>>]
    /\ IF holdsConn[c] = <<>>
       THEN UNCHANGED <<openConns, idleConns>>
       ELSE IF reuse
       THEN /\ idleConns' = [idleConns EXCEPT ![holdsConn[c]] = @ + 1]
            /\ UNCHANGED openConns
       ELSE /\ openConns' = [openConns EXCEPT ![holdsConn[c]] = @ - 1]
            /\ UNCHANGED idleConns

\* Do gets a connection: an idle one, or a new one if the limit allows
DoAcquireConn(c) ==
    /\ proc # "exited"
    /\ pc[c] = "admit"
    /\ LET h == Origin(c)
       IN  \/ /\ idleConns[h] > 0
              /\ idleConns' = [idleConns EXCEPT ![h] = @ - 1]
              /\ UNCHANGED openConns
           \/ /\ idleConns[h] = 0
              /\ CanDial(h)
              /\ openConns' = [openConns EXCEPT ![h] = @ + 1]
              /\ UNCHANGED idleConns
    /\ holdsConn' = [holdsConn EXCEPT ![c] = Origin(c)]
    /\ pc' = [pc EXCEPT ![c] = "sent"]
    /\ UNCHANGED <<restartVars, startVars, exitVars>>
    /\ UNCHANGED <<Options, clientRequest, backendRequest, outbound,
                   backendResponse, clientResponseWriter, writeDeadlinePassed,
                   err, sigChan, proc>>

\* Transport.IdleConnTimeout (line 218) closes an idle connection
IdleConnTimeout(h) ==
    /\ proc # "exited"
    /\ idleConns[h] > 0
    /\ idleConns' = [idleConns EXCEPT ![h] = @ - 1]
    /\ openConns' = [openConns EXCEPT ![h] = @ - 1]
    /\ UNCHANGED <<restartVars, startVars, exitVars>>
    /\ UNCHANGED <<Options, pc, clientRequest, backendRequest, outbound,
                   backendResponse, clientResponseWriter, writeDeadlinePassed,
                   err, holdsConn, sigChan, proc>>

\* ------------------------------------------------- timeouts
\* The server arms the write deadline (line 127) before the handler starts,
\* the client arms its timeout (line 225) inside Do: a write deadline that is
\* not longer than the client timeout always passes first.
WriteDeadlinePasses(c) ==
    /\ proc # "exited"
    /\ pc[c] \in {"admit", "sent", "copy"}
    /\ Options.SocketWriteTimeout > 0
    /\ ~writeDeadlinePassed[c]
    /\ writeDeadlinePassed' = [writeDeadlinePassed EXCEPT ![c] = TRUE]
    /\ UNCHANGED <<restartVars, startVars, exitVars>>
    /\ UNCHANGED <<Options, pc, clientRequest, backendRequest, outbound,
                   backendResponse, clientResponseWriter, err, holdsConn,
                   openConns, idleConns, sigChan, proc>>

ClientTimeoutMayFire(c) ==
    /\ Options.ClientTimeout > 0
    /\ \/ Options.SocketWriteTimeout = 0
       \/ Options.SocketWriteTimeout > Options.ClientTimeout
       \/ writeDeadlinePassed[c]

\* the handler has submitted its request and HTTPClient.Do has not returned
InDo(c) == pc[c] \in {"admit", "sent"}

\* Do has returned: its request is no longer in flight
DoReturns(c) ==
    /\ clientRequest' = [clientRequest EXCEPT ![c] = NoClientRequest]
    /\ backendRequest' = [backendRequest EXCEPT ![c] = NoBackendRequest]

\* a handler that answers every error of Do with 502
DoErrorStatusNoTimeout(e) == StatusBadGateway

\* a handler that answers every error of Do with 504
DoErrorStatusAllTimeout(e) == StatusGatewayTimeout

\* lines 193-199: the status for an error of HTTPClient.Do
DoErrorStatus(e) ==
    IF Timeout(e) THEN StatusGatewayTimeout ELSE StatusBadGateway

\* lines 192-200: Do returns an error
DoFails(c, e) ==
    /\ ReleaseConn(c, FALSE)
    /\ DoReturns(c)
    /\ Fail(c, e, DoErrorStatus(e))
    /\ UNCHANGED <<restartVars, startVars, exitVars>>
    /\ UNCHANGED <<Options, outbound, backendResponse, writeDeadlinePassed,
                   sigChan, proc>>

\* the dial or the round trip fails (connection refused, DNS, TLS, reset)
DoTransportError(c) ==
    /\ proc # "exited"
    /\ \/ pc[c] = "admit" /\ idleConns[Origin(c)] = 0 /\ CanDial(Origin(c))
       \/ pc[c] = "sent"
    /\ DoFails(c, ErrTransport)

\* Client.Timeout fires while Do waits for a connection or for the response
DoClientTimeout(c) ==
    /\ proc # "exited"
    /\ InDo(c)
    /\ ClientTimeoutMayFire(c)
    /\ DoFails(c, ErrClientTimeout)

\* Transport.TLSHandshakeTimeout and ResponseHeaderTimeout (lines 219-221)
\* end a round trip with a timeout error of their own
DoTransportTimeout(c) ==
    /\ proc # "exited"
    /\ pc[c] = "sent"
    /\ DoFails(c, ErrTransportTimeout)

\* ------------------------------------------------- the response
\* a client whose CheckRedirect returns nil: redirects are followed
CheckRedirectFollows == "nil"

\* Client.CheckRedirect (lines 227-229)
CheckRedirect == "ErrUseLastResponse"

IsRedirect(resp) ==
    /\ resp.StatusCode \in {301, 302, 303, 307, 308}
    /\ Len(resp.Header["Location"]) > 0

\* a relay that keeps the first value of a header only
RelayFirstValue(v) == <<v[1]>>

\* lines 202-207: Set the first value of a header, Add the others
RelayValues(v) ==
    LET AddAll[i \in 1..Len(v)] ==
            IF i = 1 THEN <<v[1]>> ELSE Append(AddAll[i - 1], v[i])
    IN  AddAll[Len(v)]

RelayHeaders(respHeader, header) ==
    [k \in DOMAIN header |->
        IF Len(respHeader[k]) > 0 THEN RelayValues(respHeader[k])
        ELSE header[k]]

\* Do returns a response (lines 192, 202-208); a redirect is followed inside
\* Do only if CheckRedirect allows it
DoResponse(c) ==
    /\ proc # "exited"
    /\ pc[c] = "sent"
    /\ \E resp \in {r \in BackendResponses :
                      ~InvalidWriteHeaderCode(r.StatusCode)} :
        IF /\ IsRedirect(resp)
           /\ CheckRedirect # "ErrUseLastResponse"
           /\ outbound[c] < MaxFollow
        THEN /\ outbound' = [outbound EXCEPT ![c] = @ + 1]
             /\ backendRequest' = [backendRequest EXCEPT
                   ![c].URL.pathq = <<resp.Header["Location"][1]>>]
             /\ UNCHANGED <<pc, clientRequest, backendResponse,
                            clientResponseWriter>>
        ELSE LET w == clientResponseWriter[c]
                 relayed == [w EXCEPT
                               !.header = RelayHeaders(resp.Header, @)]
             IN  /\ DoReturns(c)
                 /\ backendResponse' = [backendResponse EXCEPT ![c] = resp]
                 /\ clientResponseWriter' = [clientResponseWriter EXCEPT
                       ![c] = WriteHeader(relayed, resp.StatusCode,
                                          ~writeDeadlinePassed[c])]
                 /\ pc' = [pc EXCEPT ![c] = "copy"]
                 /\ UNCHANGED outbound
    /\ UNCHANGED <<restartVars, startVars, exitVars>>
    /\ UNCHANGED <<Options, writeDeadlinePassed, err, holdsConn,
                   openConns, idleConns, sigChan, proc>>

\* Do returns a response whose status WriteHeader refuses (lines 192,
\* 202-208): WriteHeader panics, the handler ends at line 208 and the server
\* closes the client's connection; lines 209-210 do not run
DoResponsePanics(c) ==
    /\ proc # "exited"
    /\ pc[c] = "sent"
    /\ \E resp \in {r \in BackendResponses :
                      InvalidWriteHeaderCode(r.StatusCode)} :
        /\ DoReturns(c)
        /\ backendResponse' = [backendResponse EXCEPT ![c] = resp]
        /\ clientResponseWriter' = [clientResponseWriter EXCEPT
              ![c].header = RelayHeaders(resp.Header, @)]
    /\ err' = [err EXCEPT ![c] = ErrWriteHeader]
    /\ pc' = [pc EXCEPT ![c] = "panicked"]
    /\ UNCHANGED <<restartVars, startVars, exitVars>>
    /\ UNCHANGED <<Options, outbound, writeDeadlinePassed, holdsConn,
                   openConns, idleConns, sigChan, proc>>

\* line 210: backendResponse.Body.Close(), then the handler returns; e is
\* what io.Copy returned
BodyClose(c, e, reuse) ==
    /\ err' = [err EXCEPT ![c] = e]
    /\ backendResponse' = [backendResponse EXCEPT ![c].closed = @ + 1]
    /\ ReleaseConn(c, reuse)
    /\ pc' = [pc EXCEPT ![c] = "done"]

\* line 209, one round of io.Copy: a chunk is read from the body and written
\* to the client
CopyChunk(c) ==
    /\ proc # "exited"
    /\ pc[c] = "copy"
    /\ backendResponse[c].read < Len(backendResponse[c].Body)
    /\ ~writeDeadlinePassed[c]
    /\ backendResponse' = [backendResponse EXCEPT ![c].read = @ + 1]
    /\ clientResponseWriter' = [clientResponseWriter EXCEPT
          ![c] = Write(@, backendResponse[c].Body[backendResponse[c].read + 1],
                       TRUE)]
    /\ UNCHANGED <<restartVars, startVars, exitVars>>
    /\ UNCHANGED <<Options, pc, clientRequest, backendRequest, outbound,
                   writeDeadlinePassed, err, holdsConn, openConns,
                   idleConns, sigChan, proc>>

\* lines 209-210: the write of a chunk fails (the write deadline has passed,
\* or the client has gone); io.Copy returns and the body is closed unread
CopyWriteError(c) ==
    /\ proc # "exited"
    /\ pc[c] = "copy"
    /\ backendResponse[c].read < Len(backendResponse[c].Body)
    /\ BodyClose(c, ErrCopyWrite, FALSE)
    /\ UNCHANGED <<restartVars, startVars, exitVars>>
    /\ UNCHANGED <<Options, clientRequest, backendRequest, outbound,
                   clientResponseWriter, writeDeadlinePassed, sigChan, proc>>

\* lines 209-210: the body ends; io.Copy returns and the body is closed, which
\* hands the connection back to the pool
CopyEOF(c) ==
    /\ proc # "exited"
    /\ pc[c] = "copy"
    /\ backendResponse[c].read = Len(backendResponse[c].Body)
    /\ BodyClose(c, "", TRUE)
    /\ UNCHANGED <<restartVars, startVars, exitVars>>
    /\ UNCHANGED <<Options, clientRequest, backendRequest, outbound,
                   clientResponseWriter, writeDeadlinePassed, sigChan, proc>>

\* Client.Timeout (line 225) also bounds reading the body: when it fires the
\* read fails, io.Copy returns and the body is closed
BodyClientTimeout(c) ==
    /\ proc # "exited"
    /\ pc[c] = "copy"
    /\ backendResponse[c].read < Len(backendResponse[c].Body)
    /\ ClientTimeoutMayFire(c)
    /\ BodyClose(c, ErrCopyTimeout, FALSE)
    /\ UNCHANGED <<restartVars, startVars, exitVars>>
    /\ UNCHANGED <<Options, clientRequest, backendRequest, outbound,
                   clientResponseWriter, writeDeadlinePassed, sigChan, proc>>

\* the connection's next request (keep-alive), or a new connection
NextRequest(c) ==
    /\ proc # "exited"
    /\ pc[c] = "done"
    /\ pc' = [pc EXCEPT ![c] = "idle"]
    /\ outbound' = [outbound EXCEPT ![c] = 0]
    /\ backendResponse' = [backendResponse EXCEPT ![c] = NoResponse]
    /\ clientResponseWriter' = [clientResponseWriter EXCEPT
                                  ![c] = NewResponseWriter]
    /\ writeDeadlinePassed' = [writeDeadlinePassed EXCEPT ![c] = FALSE]
    /\ err' = [err EXCEPT ![c] = ""]
    /\ clientRequest' = [clientRequest EXCEPT ![c] = NoClientRequest]
    /\ UNCHANGED <<restartVars, startVars, exitVars>>
    /\ UNCHANGED <<Options, backendRequest, holdsConn,
                   openConns, idleConns, sigChan, proc>>

\* ------------------------------------------------- signals and shutdown
\* signal.Notify (line 95) sends to a channel of capacity 1 without blocking
Signal ==
    /\ proc \notin {"starting", "exited"}
    /\ sigChan = 0
    /\ sigChan' = 1
    /\ UNCHANGED <<restartVars, startVars, exitVars>>
    /\ UNCHANGED <<Options, pc, clientRequest, backendRequest, outbound,
                   backendResponse, clientResponseWriter, writeDeadlinePassed,
                   err, holdsConn, openConns, idleConns, proc>>

\* Instance.Shutdown (lines 107-115): CloseIdleConnections, os.Remove
Shutdown ==
    /\ openConns' = [h \in Origins |-> openConns[h] - idleConns[h]]
    /\ idleConns' = [h \in Origins |-> 0]
    /\ socketFile' = Remove(socketFile)
    /\ shutdowns' = shutdowns + 1

\* sigHandler (utility.go lines 30-36): receive a signal, run Shutdown
sigHandler ==
    /\ proc = "running"
    /\ sigChan = 1
    /\ sigChan' = 0
    /\ Shutdown
    /\ proc' = "shutdown"
    /\ UNCHANGED <<restartVars, startVars, exitCode>>
    /\ UNCHANGED <<Options, pc, clientRequest, backendRequest, outbound,
                   backendResponse, clientResponseWriter, writeDeadlinePassed,
                   err, holdsConn>>

\* a sigHandler that goes on to the next signal instead of exiting
sigHandlerLoops ==
    /\ proc = "shutdown"
    /\ proc' = "running"
    /\ UNCHANGED <<restartVars, startVars, exitVars>>
    /\ UNCHANGED <<Options, pc, clientRequest, backendRequest, outbound,
                   backendResponse, clientResponseWriter, writeDeadlinePassed,
                   err, holdsConn, openConns, idleConns, sigChan>>

\* sigHandler: os.Exit(0) ends the process and every handler with it
sigHandlerExit ==
    /\ proc = "shutdown"
    /\ proc' = "exited"
    /\ exitCode' = 0
    /\ UNCHANGED <<restartVars, startVars, socketFile, shutdowns>>
    /\ UNCHANGED <<Options, pc, clientRequest, backendRequest, outbound,
                   backendResponse, clientResponseWriter, writeDeadlinePassed,
                   err, holdsConn, openConns, idleConns, sigChan>>

\* ------------------------------------------------- startup
handlerVars ==
    <<pc, clientRequest, backendRequest, outbound, backendResponse,
      clientResponseWriter, writeDeadlinePassed, err, holdsConn, openConns,
      idleConns>>

\* os.Exit(code), or a panic of the main goroutine (exit status 2)
Exit(code, why) ==
    /\ proc' = "exited"
    /\ exitCode' = code
    /\ phase' = why

\* main (main.go lines 10-37): refuse to run as root, then parse the flags
main ==
    /\ proc = "starting"
    /\ phase = "start"
    /\ IF uid = RootUID
       THEN Exit(1, "refusedRoot")
       ELSE /\ phase' = "new"
            /\ UNCHANGED <<proc, exitCode>>
    /\ UNCHANGED <<Options, restartVars, handlerVars,
                   sigChan, uid, conn, socketFile,
                   shutdowns>>

\* NewProxyInstance (lines 76-99): -version, the socket path, then the client
\* and sigHandler's goroutine
NewProxyInstance ==
    /\ proc = "starting"
    /\ phase = "new"
    /\ IF Options.PrintVersion
       THEN Exit(0, "printedVersion")
       ELSE IF Options.SocketPath = ""
       THEN Exit(1, "noSocketPath")
       ELSE /\ phase' = "run"
            /\ proc' = "running"
            /\ UNCHANGED exitCode
    /\ UNCHANGED <<Options, restartVars, handlerVars,
                   sigChan, uid, conn, socketFile,
                   shutdowns>>

\* startSocketServerAcceptLoop, lines 118-123: remove what os.Stat finds
acceptLoopRemove ==
    /\ proc # "exited"
    /\ phase = "run"
    /\ IF socketFile.kind = "absent"
       THEN /\ phase' = "listen"
            /\ UNCHANGED <<proc, exitCode, socketFile>>
       ELSE IF Remove(socketFile) = Absent
       THEN /\ socketFile' = Absent
            /\ phase' = "listen"
            /\ UNCHANGED <<proc, exitCode>>
       ELSE /\ Exit(2, "removeFailed")
            /\ UNCHANGED socketFile
    /\ UNCHANGED <<Options, restartVars, handlerVars,
                   sigChan, uid, conn, shutdowns>>

\* lines 131-134: net.Listen binds the socket, or panics
acceptLoopListen ==
    /\ proc # "exited"
    /\ phase = "listen"
    /\ IF socketFile.kind = "absent" /\ Options.SocketPath = DefaultSocketPath
       THEN /\ socketFile' = [kind |-> "socket", mode |-> ListenMode]
            /\ phase' = "chmod"
            /\ UNCHANGED <<proc, exitCode>>
       ELSE /\ Exit(2, "bindFailed")
            /\ UNCHANGED socketFile
    /\ UNCHANGED <<Options, restartVars, handlerVars,
                   sigChan, uid, conn, shutdowns>>

\* lines 135-138: os.Chmod of the socket file, or panic; then server.Serve
acceptLoopChmod ==
    /\ proc # "exited"
    /\ phase = "chmod"
    /\ IF socketFile.kind = "socket"
       THEN /\ socketFile' = Chmod(socketFile, Options.SocketMode)
            /\ phase' = "serve"
            /\ UNCHANGED <<proc, exitCode>>
       ELSE /\ Exit(2, "chmodFailed")
            /\ UNCHANGED socketFile
    /\ UNCHANGED <<Options, restartVars, handlerVars,
                   sigChan, uid, conn, shutdowns>>

\* a client connects to the socket file; the connection waits in the
\* listener's queue
Connect(c) ==
    /\ proc # "exited"
    /\ socketFile.kind = "socket"
    /\ conn[c] = "none"
    /\ conn' = [conn EXCEPT ![c] = "backlog"]
    /\ UNCHANGED <<Options, restartVars, handlerVars,
                   sigChan, proc, phase, uid,
                   socketFile, exitCode, shutdowns>>

\* line 140: server.Serve accepts a waiting connection
Accept(c) ==
    /\ proc # "exited"
    /\ phase = "serve"
    /\ conn[c] = "backlog"
    /\ conn' = [conn EXCEPT ![c] = "accepted"]
    /\ UNCHANGED <<Options, restartVars, handlerVars,
                   sigChan, proc, phase, uid,
                   socketFile, exitCode, shutdowns>>

\* Instance.Shutdown called by the embedding program, as its comment allows
\* ("invoked by signal handlers or during tests")
ShutdownByCaller ==
    /\ proc = "running"
    /\ phase = "serve"
    /\ shutdowns < MaxShutdownCalls
    /\ Shutdown
    /\ UNCHANGED <<Options, pc, clientRequest, backendRequest, outbound,
                   backendResponse, clientResponseWriter, writeDeadlinePassed,
                   err, holdsConn, sigChan, proc, phase, uid, conn,
                   exitCode, restartVars>>

\* requests to one origin, as concurrent clients of one service send them
plainRequest(c) ==
    \E host \in {"svc.local", "%zz"}, cred \in {CredFailed, CredFound} :
        Handle(c, [Host |-> host, URL |-> OriginForm("/status")],
               NoHeaders, cred)

Step(c) ==
    \/ DoAcquireConn(c)
    \/ DoTransportError(c)
    \/ DoClientTimeout(c)
    \/ DoTransportTimeout(c)
    \/ DoResponse(c)
    \/ DoResponsePanics(c)
    \/ CopyChunk(c)
    \/ CopyWriteError(c)
    \/ CopyEOF(c)
    \/ BodyClientTimeout(c)
    \/ WriteDeadlinePasses(c)
    \/ NextRequest(c)

Process ==
    \/ \E h \in Origins : IdleConnTimeout(h)
    \/ Signal
    \/ sigHandler
    \/ sigHandlerExit

\* one client connection, every request and every setting of the relay
Next ==
    \/ handleProxyRequest(RelayClient)
    \/ Step(RelayClient)
    \/ Process

Spec == Init /\ [][Next]_vars

\* NumClients connections sending requests to one origin at the same time
NextPool ==
    \/ \E c \in Clients : plainRequest(c)
    \/ \E c \in Clients : Step(c)
    \/ Process

SpecPool == InitPool /\ [][NextPool]_vars

\* the process from its start: startup, clients connecting, one connection's
\* requests, signals, and Shutdown called by the embedding program
NextLife ==
    \/ main
    \/ NewProxyInstance
    \/ acceptLoopRemove
    \/ acceptLoopListen
    \/ acceptLoopChmod
    \/ \E c \in Clients : Connect(c)
    \/ \E c \in Clients : Accept(c)
    \/ plainRequest(RelayClient)
    \/ Step(RelayClient)
    \/ Process
    \/ ShutdownByCaller

SpecLife == InitLife /\ [][NextLife]_vars

\* ------------------------------------------------- a restart
\* NumInstances processes are started with the same -socket path as a normal
\* user, each one running main, NewProxyInstance and Run on its own; they
\* share nothing but what is at the socket path.  No instance gets a request
\* here, so every transport's pool is empty and CloseIdleConnections (line
\* 112) has nothing to close.  The variables of the single process modelled
\* above stay as they are.
RestartSettings ==
    {o \in LifeSettings :
        o.SocketPath = DefaultSocketPath /\ ~o.PrintVersion}

InitRestart ==
    /\ Options \in RestartSettings
    /\ InitHandlers
    /\ proc = "starting"
    /\ phase = "start"
    /\ uid = NonRootUID
    /\ conn = [c \in Clients |-> "none"]
    /\ socketFile \in {Absent, [kind |-> "file", mode |-> ListenMode]}
    /\ instances = [i \in Instances |-> NotStarted]
    /\ socketOwner = 0

aloneVars ==
    <<Options, handlerVars, sigChan, proc, phase, uid, conn, exitCode,
      shutdowns>>

\* the main goroutine of instance i moves on
Goes(i, to) == instances' = [instances EXCEPT ![i].phase = to]

\* instance i ends by os.Exit(code) or by a panic of its main goroutine
\* (exit status 2); the kernel closes its listener, the socket file stays
ExitOf(i, code, why) ==
    /\ instances' = [instances EXCEPT ![i].proc = "exited",
                                      ![i].exitCode = code,
                                      ![i].phase = why]
    /\ socketOwner' = IF socketOwner = i THEN 0 ELSE socketOwner

\* NewProxyInstance (lines 76-99) of instance i: the client, the signal
\* channel and sigHandler's goroutine
NewProxyInstanceOf(i) ==
    /\ instances[i].proc = "starting"
    /\ instances[i].phase = "new"
    /\ instances' = [instances EXCEPT ![i].proc = "running",
                                      ![i].phase = "stat"]
    /\ UNCHANGED <<aloneVars, socketFile, socketOwner>>

\* startSocketServerAcceptLoop, line 118: os.Stat of the socket path
acceptLoopStatOf(i) ==
    /\ instances[i].proc # "exited"
    /\ instances[i].phase = "stat"
    /\ Goes(i, IF socketFile.kind = "absent" THEN "listen" ELSE "remove")
    /\ UNCHANGED <<aloneVars, socketFile, socketOwner>>

\* lines 119-122: os.Remove of what os.Stat found, whoever it belongs to;
\* panic if it is no longer there
acceptLoopRemoveOf(i) ==
    /\ instances[i].proc # "exited"
    /\ instances[i].phase = "remove"
    /\ IF socketFile.kind # "absent" /\ Remove(socketFile) = Absent
       THEN /\ socketFile' = Absent
            /\ socketOwner' = 0
            /\ Goes(i, "listen")
       ELSE /\ ExitOf(i, 2, "removeFailed")
            /\ UNCHANGED socketFile
    /\ UNCHANGED aloneVars

\* lines 131-134: net.Listen binds a new socket file, or panics when the
\* path is taken
acceptLoopListenOf(i) ==
    /\ instances[i].proc # "exited"
    /\ instances[i].phase = "listen"
    /\ IF socketFile.kind = "absent"
       THEN /\ socketFile' = [kind |-> "socket", mode |-> ListenMode]
            /\ socketOwner' = i
            /\ Goes(i, "chmod")
       ELSE /\ ExitOf(i, 2, "bindFailed")
            /\ UNCHANGED socketFile
    /\ UNCHANGED aloneVars

\* lines 135-140: os.Chmod of what is at the path now, or panic when nothing
\* is; then server.Serve
acceptLoopChmodOf(i) ==
    /\ instances[i].proc # "exited"
    /\ instances[i].phase = "chmod"
    /\ IF socketFile.kind # "absent"
       THEN /\ socketFile' = Chmod(socketFile, Options.SocketMode)
            /\ Goes(i, "serve")
            /\ UNCHANGED socketOwner
       ELSE /\ ExitOf(i, 2, "chmodFailed")
            /\ UNCHANGED socketFile
    /\ UNCHANGED aloneVars

\* signal.Notify (line 95) of instance i: a signal for that process
SignalOf(i) ==
    /\ instances[i].proc \notin {"starting", "exited"}
    /\ instances[i].sigChan = 0
    /\ instances' = [instances EXCEPT ![i].sigChan = 1]
    /\ UNCHANGED <<aloneVars, socketFile, socketOwner>>

\* sigHandler (utility.go lines 30-33) of instance i: receive a signal, run
\* Shutdown (lines 107-115), whose os.Remove takes what is at the path
sigHandlerOf(i) ==
    /\ instances[i].proc = "running"
    /\ instances[i].sigChan = 1
    /\ instances' = [instances EXCEPT ![i].sigChan = 0,
                                      ![i].proc = "shutdown"]
    /\ socketFile' = Remove(socketFile)
    /\ socketOwner' = IF Remove(socketFile) = Absent THEN 0 ELSE socketOwner
    /\ UNCHANGED aloneVars

\* sigHandler (utility.go line 34) of instance i: os.Exit(0)
sigHandlerExitOf(i) ==
    /\ instances[i].proc = "shutdown"
    /\ ExitOf(i, 0, instances[i].phase)
    /\ UNCHANGED <<aloneVars, socketFile>>

NextRestart ==
    \/ \E i \in Instances : NewProxyInstanceOf(i)
    \/ \E i \in Instances : acceptLoopStatOf(i)
    \/ \E i \in Instances : acceptLoopRemoveOf(i)
    \/ \E i \in Instances : acceptLoopListenOf(i)
    \/ \E i \in Instances : acceptLoopChmodOf(i)
    \/ \E i \in Instances : SignalOf(i)
    \/ \E i \in Instances : sigHandlerOf(i)
    \/ \E i \in Instances : sigHandlerExitOf(i)

SpecRestart == InitRestart /\ [][NextRestart]_vars

\* HTTPClient.Do ends: the transport's ResponseHeaderTimeout (line 221) and
\* TLSHandshakeTimeout (line 219) bound the round trip, Client.Timeout
\* (line 225) bounds the wait for a connection as well
DoEnds(c) ==
    \/ DoAcquireConn(c)
    \/ DoTransportError(c)
    \/ DoClientTimeout(c)
    \/ DoTransportTimeout(c)
    \/ DoResponse(c)
    \/ DoResponsePanics(c)

\* io.Copy ends: only Client.Timeout (line 225) bounds the reading of a body
CopyEnds(c) ==
    /\ Options.ClientTimeout > 0
    /\ \/ CopyChunk(c)
       \/ CopyWriteError(c)
       \/ CopyEOF(c)
       \/ BodyClientTimeout(c)

\* timers expire and runnable goroutines run
Fairness ==
    \A c \in Clients :
        /\ WF_vars(DoEnds(c))
        /\ WF_vars(CopyEnds(c))
        /\ WF_vars(WriteDeadlinePasses(c))

SpecPoolFair == SpecPool /\ Fairness

\* ===================================================================
\* Properties
\* ===================================================================

\* C1: the identity headers of an outbound request carry the resolved peer
\* credentials or are absent, never what the client sent: X-Auth-UID and
\* X-Auth-GID are the kernel's ids, X-Auth-User and X-Auth-Group the looked-up
\* name or absent, X-Auth-Roles absent.
C1_IdentityHeadersOverwritten ==
    \A c \in Clients :
        InDo(c) =>
            LET h == backendRequest[c].Header
            IN  /\ h["X-Auth-UID"] = <<PeerUID>>
                /\ h["X-Auth-GID"] = <<PeerGID>>
                /\ h["X-Auth-User"] \in {<<>>, <<PeerUser>>}
                /\ h["X-Auth-Group"] \in {<<>>, <<PeerGroup>>}
                /\ h["X-Auth-Roles"] = <<>>
                /\ \A k \in IdentityHeaders :
                      \A i \in 1..Len(h[k]) : h[k][i] # Forged

\* a client forged every identity header, the user lookup failed, and the
\* request went out without X-Auth-User
C1_Witness ==
    \E c \in Clients :
        /\ pc[c] = "sent"
        /\ \A k \in IdentityHeaders : clientRequest[c].Header[k] = <<Forged>>
        /\ backendRequest[c].Header["X-Auth-User"] = <<>>
        /\ backendRequest[c].Header["X-Auth-Group"] = <<PeerGroup>>

\* C2: the outbound URL's host is ForceRemoteHost when that is set and the
\* inbound Host otherwise, its scheme is https exactly when RemoteHTTPS is
\* set, and its path and query are the inbound ones.
C2_TargetAsClaimed ==
    \A c \in Clients :
        InDo(c) =>
            /\ backendRequest[c].URL.host =
                  <<IF Options.ForceRemoteHost # ""
                    THEN Options.ForceRemoteHost ELSE clientRequest[c].Host>>
            /\ backendRequest[c].URL.scheme =
                  (IF Options.RemoteHTTPS THEN "https" ELSE "http")
            /\ backendRequest[c].URL.pathq = <<clientRequest[c].URL.pathq>>

\* C2 for requests in origin form only (GET /path): there the claim holds
C2_OriginFormTarget ==
    \A c \in Clients :
        (InDo(c) /\ clientRequest[c].URL.scheme = "") =>
            /\ backendRequest[c].URL.host =
                  <<IF Options.ForceRemoteHost # ""
                    THEN Options.ForceRemoteHost ELSE clientRequest[c].Host>>
            /\ backendRequest[c].URL.scheme =
                  (IF Options.RemoteHTTPS THEN "https" ELSE "http")
            /\ backendRequest[c].URL.pathq = <<clientRequest[c].URL.pathq>>

\* C3: whenever the client timeout fires during a request, at whatever point
\* and under every setting of the timeouts, the client receives status 504
\* with a non-empty body and no second outbound request is made.
C3_TimeoutAlways504 ==
    \A c \in Clients :
        (pc[c] = "done" /\ err[c] \in {ErrClientTimeout, ErrCopyTimeout}) =>
            /\ clientResponseWriter[c].wireStatus = StatusGatewayTimeout
            /\ clientResponseWriter[c].wireBody # <<>>
            /\ outbound[c] = 1

\* C3 as amended: when the client timeout fires before Do has returned, the
\* handler answers 504 with the error text and makes no second outbound
\* request; the answer reaches the client exactly when the connection's write
\* deadline has not passed, and never when SocketWriteTimeout is set and not
\* longer than ClientTimeout.
C3_TimeoutInDo504 ==
    \A c \in Clients :
        (pc[c] = "done" /\ err[c] = ErrClientTimeout) =>
            LET w == clientResponseWriter[c]
            IN  /\ w.status = StatusGatewayTimeout
                /\ w.body = <<ErrClientTimeout>>
                /\ outbound[c] = 1
                /\ backendResponse[c] = NoResponse
                /\ ~writeDeadlinePassed[c] =>
                      /\ w.wireStatus = StatusGatewayTimeout
                      /\ w.wireBody = w.body
                /\ writeDeadlinePassed[c] =>
                      /\ w.wireStatus = 0
                      /\ w.wireBody = <<>>
                /\ (/\ Options.SocketWriteTimeout > 0
                    /\ Options.SocketWriteTimeout <= Options.ClientTimeout)
                      => writeDeadlinePassed[c]

\* the client timeout fired inside Do and the 504 reached the client
C3_Witness ==
    \E c \in Clients :
        /\ pc[c] = "done"
        /\ err[c] = ErrClientTimeout
        /\ clientResponseWriter[c].wireStatus = StatusGatewayTimeout
        /\ Options.SocketWriteTimeout > Options.ClientTimeout

\* C4: a transport error of Do that is not a timeout is answered with 502 and
\* the error text, which is what reaches the client while its connection can
\* be written; the process goes on and takes the connection's next request.
C4_TransportError502 ==
    \A c \in Clients :
        (pc[c] = "done" /\ err[c] = ErrTransport) =>
            LET w == clientResponseWriter[c]
            IN  /\ w.status = StatusBadGateway
                /\ w.body = <<ErrTransport>>
                /\ w.writes = 1
                /\ ~writeDeadlinePassed[c] =>
                      /\ w.wireStatus = StatusBadGateway
                      /\ w.wireBody = <<ErrTransport>>
                /\ proc # "exited" => ENABLED NextRequest(c)

\* a refused connection was answered with 502 and the process still runs
C4_Witness ==
    \E c \in Clients :
        /\ pc[c] = "done"
        /\ err[c] = ErrTransport
        /\ clientResponseWriter[c].wireStatus = StatusBadGateway
        /\ proc = "running"

\* C5: when peercred.Read fails the handler still issues the outbound request
\* and relays the backend's answer instead of rejecting the request.
C5_CredFailureSoftFails ==
    \A c \in Clients :
        (pc[c] = "done" /\ err[c] = ErrPeerCred) =>
            /\ outbound[c] = 1
            /\ clientResponseWriter[c].status # StatusInternalServerError

\* C6: a 3xx answer of the backend is never followed: one outbound request was
\* made, and the client gets that status and its Location header unchanged.
C6_RedirectRelayed ==
    \A c \in Clients :
        (pc[c] \in {"copy", "done"} /\ IsRedirect(backendResponse[c])) =>
            LET w == clientResponseWriter[c]
            IN  /\ outbound[c] = 1
                /\ w.status = backendResponse[c].StatusCode
                /\ w.header["Location"] = backendResponse[c].Header["Location"]
                /\ ~writeDeadlinePassed[c] =>
                      w.wireStatus = backendResponse[c].StatusCode

\* the backend answered 302 and the client has received 302 and the Location
C6_Witness ==
    \E c \in Clients :
        /\ pc[c] = "done"
        /\ backendResponse[c].StatusCode = 302
        /\ clientResponseWriter[c].wireStatus = 302
        /\ clientResponseWriter[c].header["Location"] = <<"/next">>
        /\ outbound[c] = 1

\* the handler answered 500 itself, before it called HTTPClient.Do
Rejected(c) == err[c] \in {ErrNewRequest, ErrPeerCred}

\* C7: every inbound request that reached the handler has caused exactly one
\* outbound request when the handler returns.
C7_ExactlyOneOutbound ==
    \A c \in Clients : pc[c] = "done" => outbound[c] = 1

\* C7 as amended: never more than one outbound request per inbound request;
\* exactly one once the handler has called HTTPClient.Do, and none when it
\* answered 500 itself before that call.
C7_AtMostOneOutbound ==
    \A c \in Clients :
        /\ outbound[c] <= 1
        /\ InDo(c) \/ pc[c] = "copy" => outbound[c] = 1
        /\ pc[c] = "done" => (outbound[c] = 0 <=> Rejected(c))
        /\ pc[c] = "done" /\ Rejected(c) =>
              clientResponseWriter[c].status = StatusInternalServerError

\* one request was rejected with 500 and no outbound request was made
C7_Witness ==
    \E c \in Clients :
        /\ pc[c] = "done"
        /\ err[c] = ErrNewRequest
        /\ outbound[c] = 0

Answered(c) ==
    LET w == clientResponseWriter[c]
    IN  /\ w.writes = 1
        /\ \/ w.status \in {StatusInternalServerError, StatusBadGateway,
                            StatusGatewayTimeout}
           \/ /\ backendResponse[c].StatusCode # 0
              /\ w.status = backendResponse[c].StatusCode

\* C9: no request is left without a response, also when a shutdown signal
\* arrives while it is in flight: once the process has exited, no handler is
\* still waiting inside HTTPClient.Do.
C9_AnsweredDespiteShutdown ==
    \A c \in Clients : proc = "exited" => ~InDo(c)

\* C9 as amended: a handler never writes more than one response, has written
\* none while it is inside HTTPClient.Do and exactly one (500, 502, 504 or the
\* backend's status) from the moment Do has returned or the request was
\* rejected; with a client timeout configured, every request inside Do is
\* eventually answered unless the process exits first or the backend's status
\* makes WriteHeader panic.
C9_OneResponseUnlessExit ==
    /\ [](\A c \in Clients :
            /\ clientResponseWriter[c].writes <= 1
            /\ pc[c] \in {"idle", "admit", "sent"} =>
                  clientResponseWriter[c].writes = 0
            /\ pc[c] \in {"copy", "done"} => Answered(c))
    /\ \A c \in Clients :
          (InDo(c) /\ Options.ClientTimeout > 0)
              ~> (Answered(c) \/ pc[c] = "panicked" \/ proc = "exited")

\* a request was answered after the shutdown signal had been handled, while
\* another request was still inside Do
C9_Witness ==
    \E c, d \in Clients :
        /\ c # d
        /\ proc = "shutdown"
        /\ pc[c] = "done"
        /\ Answered(c)
        /\ InDo(d)

\* the handlers that hold a connection of origin h
Holders(h) == {c \in Clients : holdsConn[c] = h}

\* C10: the open outbound connections of an origin never exceed the
\* configured MaxConnsPerHost, whatever value is configured.
C10_LimitForEveryValue ==
    \A h \in Origins : openConns[h] <= Options.MaxConnsPerHost

\* C10 as amended: for every positive MaxConnsPerHost the open connections of
\* an origin (in use or idle) never exceed it, and zero means no limit; a
\* request beyond the limit holds no connection while it waits, and with a
\* client timeout configured it eventually leaves the wait, admitted or
\* answered 504, unless the process exits first.
C10_LimitWhenPositive ==
    /\ [](\A h \in Origins :
            /\ openConns[h] = Cardinality(Holders(h)) + idleConns[h]
            /\ Options.MaxConnsPerHost > 0 =>
                  openConns[h] <= Options.MaxConnsPerHost)
    /\ [](\A c \in Clients :
            pc[c] \in {"idle", "admit", "done"} => holdsConn[c] = <<>>)
    /\ \A c \in Clients :
          (pc[c] = "admit" /\ Options.ClientTimeout > 0)
              ~> (pc[c] # "admit" \/ proc = "exited")

\* the limit is one, one request holds the only connection and another waits
C10_Witness ==
    \E c, d \in Clients :
        /\ Options.MaxConnsPerHost = 1
        /\ pc[c] \in {"sent", "copy"}
        /\ holdsConn[c] = <<"svc.local">>
        /\ pc[d] = "admit"
        /\ backendRequest[d].URL.host = <<"svc.local">>
        /\ openConns[<<"svc.local">>] = 1

\* C14: every header of the backend's response is on the client's response
\* with all of its values in the backend's order, whether it has one value or
\* several.
C14_AllHeaderValuesRelayed ==
    \A c \in Clients :
        (pc[c] \in {"copy", "done"} /\ backendResponse[c].StatusCode # 0) =>
            \A k \in ResponseHeaderNames :
                clientResponseWriter[c].header[k] = backendResponse[c].Header[k]

\* a response with two Set-Cookie values was relayed with both
C14_Witness ==
    \E c \in Clients :
        /\ pc[c] = "done"
        /\ backendResponse[c].Header["Set-Cookie"] = <<"a=1", "b=2">>
        /\ clientResponseWriter[c].header["Set-Cookie"] = <<"a=1", "b=2">>
        /\ clientResponseWriter[c].wireStatus = 200

\* the credentials were read and a name lookup failed
SoftMiss(c) ==
    /\ clientRequest[c].Cred.ok
    /\ ~clientRequest[c].Cred.user \/ ~clientRequest[c].Cred.group

\* C16: when the credentials are read and a name lookup fails, the outbound
\* request carries the kernel's uid and gid, each name header is the looked-up
\* name or absent, and the request is forwarded: it is never rejected for the
\* failed lookup.
C16_SoftMissKeepsIds ==
    \A c \in Clients :
        /\ (InDo(c) /\ SoftMiss(c)) =>
              LET h == backendRequest[c].Header
                  cred == clientRequest[c].Cred
              IN  /\ h["X-Auth-UID"] = <<PeerUID>>
                  /\ h["X-Auth-GID"] = <<PeerGID>>
                  /\ h["X-Auth-User"] =
                        (IF cred.user THEN <<PeerUser>> ELSE <<>>)
                  /\ h["X-Auth-Group"] =
                        (IF cred.group THEN <<PeerGroup>> ELSE <<>>)
                  /\ outbound[c] = 1
        /\ (pc[c] = "done" /\ SoftMiss(c)) => err[c] = ErrNewRequest

\* the group lookup failed for a client that forged every header: the request
\* is on its way with the ids, the user name and no group name
C16_Witness ==
    \E c \in Clients :
        /\ pc[c] = "sent"
        /\ clientRequest[c].Cred = [ok |-> TRUE, user |-> TRUE, group |-> FALSE]
        /\ clientRequest[c].Header["X-Auth-Group"] = <<Forged>>
        /\ backendRequest[c].Header["X-Auth-Group"] = <<>>
        /\ backendRequest[c].Header["X-Auth-GID"] = <<PeerGID>>

\* C17: the outbound request's X-Forwarded-For has the single value
\* 127.0.0.1, whatever values the inbound request carried.
C17_ForwardedForLoopback ==
    \A c \in Clients :
        InDo(c) => backendRequest[c].Header["X-Forwarded-For"] = <<"127.0.0.1">>

\* a client sent two forwarded-for values and one, the loopback, went out
C17_Witness ==
    \E c \in Clients :
        /\ pc[c] = "sent"
        /\ clientRequest[c].Header["X-Forwarded-For"] = <<Forged, "10.0.0.1">>
        /\ backendRequest[c].Header["X-Forwarded-For"] = <<"127.0.0.1">>

C15_BodyClosedOnEveryExit ==
    \A c \in Clients :
        (pc[c] \in {"done", "panicked"} /\ backendResponse[c].StatusCode # 0)
            => /\ backendResponse[c].closed = 1
               /\ holdsConn[c] = <<>>

\* C15 for the handlers that return from line 211: the body was closed once,
\* after a full copy and after a copy that failed part-way
C15_BodyClosedOnReturn ==
    \A c \in Clients :
        /\ (pc[c] = "done" /\ backendResponse[c].StatusCode # 0)
              => /\ backendResponse[c].closed = 1
                 /\ holdsConn[c] = <<>>
        /\ pc[c] = "copy" => backendResponse[c].closed = 0

\* C11: a call of Shutdown, the first and every later one, does not end the
\* process, leaves no file at the socket path and no idle pooled connection,
\* and closes exactly the connections that were idle; a later call finds the
\* path as the earlier one left it.
C11_ShutdownIdempotent ==
    [][shutdowns' # shutdowns =>
          /\ socketFile'.kind \notin {"file", "socket"}
          /\ shutdowns > 0 => socketFile' = socketFile
          /\ \A h \in Origins :
                /\ idleConns'[h] = 0
                /\ openConns'[h] = openConns[h] - idleConns[h]
          /\ exitCode' = exitCode
          /\ phase' = phase]_vars

\* Shutdown was called twice on a serving instance, which is still running
C11_Witness ==
    /\ shutdowns = 2
    /\ proc = "running"
    /\ phase = "serve"
    /\ exitCode = NoExit
    /\ socketFile = Absent

\* C12: once the shutdown sequence has begun, no connection is accepted.
C12_NoAcceptAfterSignal ==
    [][proc = "shutdown" =>
          \A c \in Clients : conn'[c] = "accepted" => conn[c] = "accepted"]_vars

\* C13: the exit code is 1 when main refuses root, when the socket path is
\* missing and when the bind fails, and 0 for -version and for a shutdown by
\* signal; a configuration error exits before the socket is bound.
C13_ExitCodes ==
    (proc = "exited" /\ phase \notin {"removeFailed", "chmodFailed"}) =>
        /\ exitCode =
              (IF phase \in {"refusedRoot", "noSocketPath", "bindFailed"}
               THEN 1 ELSE 0)
        /\ phase \in {"refusedRoot", "noSocketPath"} =>
              socketFile.kind # "socket"

\* C13 without the bind: the checks of main and NewProxyInstance, in their
\* order (root, -version, socket path), and the shutdown by signal
C13_ExitCodesOfChecks ==
    /\ phase = "refusedRoot" => uid = RootUID /\ exitCode = 1
    /\ phase = "printedVersion" =>
          uid # RootUID /\ Options.PrintVersion /\ exitCode = 0
    /\ phase = "noSocketPath" =>
          /\ uid # RootUID /\ ~Options.PrintVersion
          /\ Options.SocketPath = "" /\ exitCode = 1
    /\ phase \in {"refusedRoot", "printedVersion", "noSocketPath"} =>
          proc = "exited" /\ socketFile.kind # "socket" /\ shutdowns = 0
    /\ (proc = "exited" /\ phase \in {"run", "listen", "chmod", "serve"}) =>
          exitCode = 0 /\ shutdowns > 0

\* C18: once serving, the socket file is at the path with the configured
\* file mode.
C18_ServingWithConfiguredMode ==
    (phase = "serve" /\ shutdowns = 0) =>
        socketFile = [kind |-> "socket", mode |-> Options.SocketMode]

\* C18 as amended: the accept loop removes what it finds at the path before it
\* binds and goes on when nothing is there; a path it cannot remove and a
\* failed bind end the process with a panic; once serving, and until a
\* shutdown, the socket file is at the path with the permission bits of the
\* configured mode.
C18_RemoveBindChmod ==
    /\ (phase = "listen" /\ shutdowns = 0) => socketFile = Absent
    /\ phase = "removeFailed" => socketFile.kind = "dir"
    /\ phase \in {"removeFailed", "bindFailed"} =>
          /\ proc = "exited"
          /\ exitCode = 2
          /\ socketFile.kind # "socket"
    /\ (phase = "serve" /\ shutdowns = 0) =>
          socketFile = [kind |-> "socket", mode |-> Perm(Options.SocketMode)]

\* the proxy serves on a socket whose mode 0600 differs from the mode 0755
\* the bind gave it, and a client is connected
C18_Witness ==
    /\ phase = "serve"
    /\ shutdowns = 0
    /\ Options.SocketMode = PrivateSocketMode
    /\ socketFile = [kind |-> "socket", mode |-> PrivateSocketMode]
    /\ \E c \in Clients : conn[c] = "accepted"

\* C19: Shutdown runs once per process however many signals arrive: not
\* before a signal is received, once when sigHandler has received one, never
\* again.
C19_ShutdownOnce ==
    /\ shutdowns <= 1
    /\ proc = "running" => shutdowns = 0
    /\ proc \in {"shutdown", "exited"} => shutdowns = 1
    /\ proc = "exited" => exitCode = 0

\* a second signal arrived after sigHandler had taken the first; the process
\* has exited with that signal still in the channel
C19_Witness ==
    /\ proc = "exited"
    /\ sigChan = 1
    /\ shutdowns = 1


\* instance i is serving: its listener is bound, server.Serve runs and its
\* Shutdown has not been called
Serving(i) ==
    /\ instances[i].phase = "serve"
    /\ instances[i].proc = "running"

\* C21: while an instance is serving, the socket file at its path exists and
\* leads to its listener, also when another instance is started with the same
\* path or shut down: no instance's startup or shutdown takes the socket file
\* of an instance that is still serving.
C21_ServingSocketKept ==
    \A i \in Instances :
        Serving(i) => socketFile.kind = "socket" /\ socketOwner = i

\* C21, the startup's part: the os.Remove of line 119 never takes the socket
\* file of another instance that is serving
C21_StartupKeepsPeerSocket ==
    [][\A i, j \in Instances :
          (acceptLoopRemoveOf(i) /\ j # i /\ Serving(j) /\ socketOwner = j)
              => socketOwner' = j]_vars

\* C21, the shutdown's part: the os.Remove of line 113 never takes the socket
\* file of another instance that is serving
C21_ShutdownKeepsPeerSocket ==
    [][\A i, j \in Instances :
          (sigHandlerOf(i) /\ j # i /\ Serving(j) /\ socketOwner = j)
              => socketOwner' = j]_vars

\* C21, one process alone: while it serves and Shutdown has not been called,
\* its socket file is at the path
C21_AloneSocketServes ==
    (phase = "serve" /\ proc = "running" /\ shutdowns = 0)
        => socketFile.kind = "socket"

====
